---- MODULE Spec2Model ----
(***************************************************************************)
(* REDCap-EDA: the type-dispatch analysis pipeline.                        *)
(*                                                                         *)
(*   SchemaHandler            src/redcap_eda/cast_schema.py                *)
(*   ExploratoryDataAnalysis  src/redcap_eda/analysis/eda.py               *)
(*   UnifiedReport            src/redcap_eda/unified_report.py             *)
(*   analyze                  src/redcap_eda/cli.py                        *)
(*                                                                         *)
(* Four specifications share the variables:                                *)
(*   SpecExplore  ExploratoryDataAnalysis(df).explore() on a dataset       *)
(*   SpecEnforce  SchemaHandler.load_schema / enforce_schema               *)
(*   SpecReport   a UnifiedReport object and the calls made on it          *)
(*   SpecRun      one run of the analyze command                           *)
(***************************************************************************)
EXTENDS Integers, Sequences, FiniteSets, TLC

VARIABLES
    \* ---- the dataset and ExploratoryDataAnalysis (eda.py)
    df,             \* the DataFrame: a sequence of columns [name, dtype, analysis]
    cpu,            \* mp.cpu_count()
    pc,             \* position inside explore()
    num_workers,    \* explore: min(cpu_count, number of columns)
    chunksize,      \* explore: max(1, n // (num_workers * 2))
    taken,          \* pool: number of task chunks handed to workers so far
    inflight,       \* pool: chunks a worker is computing
    done,           \* pool: chunks computed and not yet yielded by the iterator
    results,        \* explore: list(pool.imap(...)) built so far
    report,         \* explore: the returned dict, in insertion order
    json_file,      \* eda_report.json in the output directory
    \* ---- SchemaHandler (cast_schema.py)
    df0,            \* the column types the dataset had before enforcement
    schema_file,    \* the file behind schema_path
    schema,         \* self.schema: an ordered mapping column -> dtype
    schema_call,    \* outcome of the last load_schema call
    enforced,       \* outcome of enforce_schema: status and conversion report
    \* ---- UnifiedReport (unified_report.py)
    title_page,
    schema_page,
    missing_values_pages,
    missing_values_analysis_pages,
    analysis_pages,
    finalized,      \* history: finalize_section has been called
    last_call,      \* outcome of the last call on the report object
    export,         \* outcome of export_to_pdf
    pdf_pages,      \* the pages saved into the PdfPages handle, in order
    pdf_closed,     \* the PdfPages handle has been closed
    log,            \* what unified_report.py logged during export
    \* ---- the analyzers (analysis/*/mixins.py)
    series,         \* the column (or dataset) handed to an analyzer
    products,       \* what the last analyzer call returned or raised
    plot_files,     \* the plot files the analyzers have written
    save_calls,     \* history: how many times save_report has been called
    \* ---- functions called on their own
    load_call,      \* a load_data call: its arguments and how it ended
    prompt,         \* create_interactive_schema: where it is, the column it asks
                    \* about, the operator's last answer
    analyzer_calls, \* history: the analyzers explore() has called, per column
                    \* index, and under 0 those called on the whole dataset
    \* ---- analyze (cli.py)
    run             \* position inside analyze and how it ended

edaVars == <<df, cpu, pc, num_workers, chunksize, taken, inflight, done,
             results, report, json_file>>
schemaVars == <<df0, schema_file, schema, schema_call, enforced>>
reportVars == <<title_page, schema_page, missing_values_pages,
                missing_values_analysis_pages, analysis_pages, finalized,
                last_call, export, pdf_pages, pdf_closed, log>>
analyzerVars == <<series, products, plot_files, save_calls>>
callVars == <<load_call, prompt, analyzer_calls>>
vars == <<edaVars, schemaVars, reportVars, analyzerVars, callVars, run>>

(***************************************************************************)
(* Bounds of the model.                                                    *)
(***************************************************************************)
MaxCols == 8        \* columns of a dataset in SpecExplore
MaxCpu == 2         \* mp.cpu_count() ranges over 1..MaxCpu
MaxSaves == 3       \* save_report calls on one report

(***************************************************************************)
(* Values.                                                                 *)
(***************************************************************************)
None == "None"

\* Column labels; pandas.read_csv (load_case_data.py) de-duplicates labels,
\* so the columns of a loaded dataset carry distinct names.
ColNames == <<"age", "gender", "notes", "dob", "bmi", "zip", "email", "visit",
             "site", "arm", "dose", "weight">>

\* str(series.dtype) of a stored column: the keys of DTYPE_OPTIONS.
DTypes == {"int64", "float64", "bool", "string", "category",
           "datetime64[ns]", "timedelta64[ns]", "object"}

\* `"string" in dtype`
StringLike == {"string"}

\* What the analyzer called for a column does: return its products or raise.
Analyses == {"ok", "raises", "objects", "unwritable"}

Column(name, dtype, analysis) ==
    [name |-> name, dtype |-> dtype, analysis |-> analysis]

Range(s) == {s[i] : i \in DOMAIN s}

Min(a, b) == IF a <= b THEN a ELSE b

Max(a, b) == IF a >= b THEN a ELSE b

(***************************************************************************)
(* The analyzers (analysis/*/mixins.py).  A Series is its name, its dtype, *)
(* whether it is empty, and whether its values are plain (numbers,         *)
(* strings) or objects (Timestamps, tuples).  An AnalysisResult is a       *)
(* summary and a list of plot paths; a summary is a (title, statistics)    *)
(* pair or a bare mapping; statistics are entries key -> value, where a    *)
(* value is a Python primitive, a numpy scalar, another object, or a       *)
(* nested mapping whose keys are primitives or objects.                    *)
(***************************************************************************)
Series(name, dtype, empty, values) ==
    [name |-> name, dtype |-> dtype, empty |-> empty, values |-> values]

Stat(key, kind, keys, text) == [key |-> key, kind |-> kind, keys |-> keys, text |-> text]

\* {"error": reason}
ErrorStatistics(reason) == <<Stat("error", "primitive", "none", <<reason>>)>>

\* summary=(title, statistics)
Pair(title, statistics) == [shape |-> "pair", title |-> title, statistics |-> statistics]

\* summary={...}: a mapping where the pair is expected.
Bare(statistics) == [shape |-> "mapping", title |-> <<>>, statistics |-> statistics]

Produced(summary, plot_paths) ==
    [status |-> "returned", summary |-> summary, plot_paths |-> plot_paths]

Raised(exception) ==
    [status |-> exception, summary |-> Bare(<<>>), plot_paths |-> <<>>]

\* The words a column label or a file-name suffix is made of, split at "_".
Words(str) ==
    CASE str = "visit_text_length" -> <<"visit", "text", "length">>
      [] str = "visit_category" -> <<"visit", "category">>
      [] str = "_distribution.png" -> <<"distribution.png">>
      [] str = "_boxplot.png" -> <<"boxplot.png">>
      [] str = "_category_distribution.png" -> <<"category", "distribution.png">>
      [] str = "_text_length_distribution.png" -> <<"text", "length", "distribution.png">>
      [] str = "_wordcloud.png" -> <<"wordcloud.png">>
      [] str = "_datetime_distribution.png" -> <<"datetime", "distribution.png">>
      [] str = "_time_trend.png" -> <<"time", "trend.png">>
      [] str = "_heatmap.png" -> <<"heatmap.png">>
      [] str = "missing_values" -> <<"missing", "values">>
      [] OTHER -> <<str>>

\* f"{series.name}_<kind>.png": the label and the suffix run together.
FileName(name, suffix) == Words(name) \o Words(suffix)

\* What fig.savefig(plot_path) does in a plot_* helper: it writes the file,
\* it returns without the file being there, or it raises (a directory that
\* is gone or not writable, a full disk).
SaveOutcomes == {"saved", "absent", "raises"}

\* The outcomes of the savefig calls of one analyzer, in call order.
AllSaved == <<"saved", "saved">>

\* A plot_* helper whose savefig returned: the path if the file is there,
\* else "".
PlotPath(name, suffix, saved) == IF saved = "saved" THEN FileName(name, suffix) ELSE <<>>

\* An exception that leaves the analyzer after it wrote the files written.
RaisedAfter(exception, written) ==
    [status |-> exception, summary |-> Bare(<<>>), plot_paths |-> written]

\* plot_paths = [plot_a(series, output_dir), plot_b(series, output_dir)] and
\* return AnalysisResult(summary, plot_paths): the helpers run in order and
\* have no try block, so the first savefig that raises ends the analyzer.
WithPlots(summary, name, suffixes, saved) ==
    LET raising == {i \in DOMAIN suffixes : saved[i] = "raises"}
        paths == [i \in DOMAIN suffixes |-> PlotPath(name, suffixes[i], saved[i])]
    IN  IF raising = {}
        THEN Produced(summary, paths)
        ELSE RaisedAfter("OSError",
                         SubSeq(paths, 1, (CHOOSE i \in raising : \A j \in raising : i <= j) - 1))

\* How a value of the series shows up as a statistic.
ValueKind(s) == IF s.values = "objects" THEN "object" ELSE "primitive"

\* Dtypes on which Series.mean() raises TypeError.
NotNumeric == {"string", "object", "category"}

\* Dtypes that have no .str accessor.
NoStrAccessor == {"int64", "float64", "bool", "datetime64[ns]", "timedelta64[ns]"}

\* numerical_summary without its guard for an empty series: the statistics
\* of nothing, and the empty paths of plot helpers that had nothing to draw.
numerical_summary_unguarded(s, saved) ==
    IF s.dtype \in NotNumeric
    THEN Raised("TypeError")
    ELSE IF s.empty
    THEN Produced(Pair(<<"Numerical Analysis of ", s.name>>,
                       <<Stat("mean", ValueKind(s), "none", <<>>)>>),
                  << <<>>, <<>> >>)
    ELSE WithPlots(Pair(<<"Numerical Analysis of ", s.name>>,
                        <<Stat("mean", ValueKind(s), "none", <<>>)>>),
                   s.name, <<"_distribution.png", "_boxplot.png">>, saved)

\* numerical_summary (numerical/mixins.py 24-60).
numerical_summary(s, saved) ==
    IF s.empty
    THEN Produced(Pair(<<"Numerical Analysis">>, ErrorStatistics("Column is empty")), <<>>)
    ELSE IF s.dtype \in NotNumeric
    THEN Raised("TypeError")
    ELSE WithPlots(Pair(<<"Numerical Analysis of ", s.name>>,
                        <<Stat("mean", ValueKind(s), "none", <<>>),
                          Stat("min", IF s.values = "objects" THEN "object" ELSE "numpy",
                               "none", <<>>),
                          Stat("outliers", ValueKind(s), "none", <<>>)>>),
                   s.name, <<"_distribution.png", "_boxplot.png">>, saved)

\* categorize (categorical/mixins.py 24-64).
categorize(s, saved) ==
    IF s.empty
    THEN Produced(Pair(<<"Categorical Analysis">>, ErrorStatistics("Column is empty")), <<>>)
    ELSE WithPlots(Pair(<<"Categorical Analysis of ", s.name>>,
                       <<Stat("unique_values", "primitive", "none", <<>>),
                         Stat("missing_values", "numpy", "none", <<>>),
                         Stat("mode", ValueKind(s), "none", <<>>),
                         Stat("category_counts", "mapping", ValueKind(s), <<>>)>>),
                   s.name, <<"_category_distribution.png">>, saved)

\* analyze_text (text/mixins.py 36-72).
analyze_text(s, saved) ==
    IF s.empty
    THEN Produced(Pair(<<"Text Analysis">>, ErrorStatistics("Column is empty")), <<>>)
    ELSE IF s.dtype \in NoStrAccessor
    THEN Raised("AttributeError")
    ELSE WithPlots(Pair(<<"Text Analysis of ", s.name>>,
                       <<Stat("unique_values", "primitive", "none", <<>>),
                         Stat("missing_values", "numpy", "none", <<>>),
                         Stat("top_words", "mapping", "primitive", <<>>)>>),
                   s.name, <<"_text_length_distribution.png", "_wordcloud.png">>, saved)

\* analyze_datetime (datetime/mixins.py 33-79).
analyze_datetime(s, saved) ==
    IF s.empty
    THEN Produced(Bare(ErrorStatistics("Column is empty")), <<>>)
    ELSE IF s.dtype # "datetime64[ns]"
    THEN Produced(Bare(ErrorStatistics("Not a valid datetime column")), <<>>)
    ELSE WithPlots(Pair(<<"Datetime Analysis of ", s.name>>,
                       <<Stat("earliest", "object", "none", <<>>),
                         Stat("missing_values", "numpy", "none", <<>>),
                         Stat("year_counts", "mapping", "primitive", <<>>)>>),
                   s.name, <<"_datetime_distribution.png", "_time_trend.png">>, saved)

\* analyze_missing_data (missing/mixins.py 33-60); s stands for the DataFrame.
analyze_missing_data(s, saved) ==
    IF s.empty
    THEN Produced(Bare(ErrorStatistics("DataFrame is empty")), <<>>)
    ELSE WithPlots(Pair(<<"Missing Values Summary">>,
                       <<Stat("columns", "numpy", "none", <<>>)>>),
                   "missing_values", <<"_heatmap.png">>, saved)

\* The files a returned result's plot helpers have written.
Written(result) == {result.plot_paths[i] : i \in DOMAIN result.plot_paths} \ {<<>>}

(***************************************************************************)
(* ExploratoryDataAnalysis.analyze_column (eda.py 51-86).                  *)
(***************************************************************************)
\* A match statement whose last case hands the column to analyze_text.
DispatchRestAsText(dtype) ==
    IF dtype \in {"int64", "float64"} THEN "summarize"
    ELSE IF dtype = "category" THEN "categorize"
    ELSE "analyze_text"

\* The match statement: which analyzer a stored dtype is routed to.
Dispatch(dtype) ==
    IF dtype \in {"int64", "float64"} THEN "summarize"
    ELSE IF dtype = "category" THEN "categorize"
    ELSE IF dtype \in StringLike THEN "analyze_text"
    ELSE "skip"

\* f"Skipped analysis for {dtype} columns"
SkipMessage(dtype) == <<"Skipped analysis for ", dtype, " columns">>

\* self.df[col] as the analyzers see it; the columns of a loaded dataset
\* have rows.
SeriesOf(col) ==
    Series(col.name, col.dtype, FALSE, IF col.analysis = "objects" THEN "objects" ELSE "plain")

\* The savefig calls made for a column: they write their files, or, for a
\* column whose plots cannot be written, the first of them raises.
SavesOf(col) == IF col.analysis = "unwritable" THEN <<"raises", "saved">> ELSE AllSaved

\* The analyzer call of the matching case.
Analyze(col) ==
    CASE Dispatch(col.dtype) = "summarize" -> numerical_summary(SeriesOf(col), SavesOf(col))
      [] Dispatch(col.dtype) = "categorize" -> categorize(SeriesOf(col), SavesOf(col))
      [] Dispatch(col.dtype) = "analyze_text" -> analyze_text(SeriesOf(col), SavesOf(col))
      [] OTHER -> Raised("none")

\* The value analyze_column puts under the column's name.
Value(kind, analyzer, text, summary) ==
    [kind |-> kind, analyzer |-> analyzer, text |-> text, shape |-> summary.shape,
     title |-> summary.title, statistics |-> summary.statistics]

\* analyze_column without its except clause: the exception leaves the call.
OnAnalyzerErrorPropagates(col) ==
    [status |-> "raised", col |-> col.name,
     value |-> Value("error", Dispatch(col.dtype), <<"error in ", col.name>>,
                     Bare(<<Stat("error", "primitive", "none", <<"error in ", col.name>>)>>))]

\* The except clause of analyze_column: {col: {"error": str(e)}}.
OnAnalyzerError(col) ==
    [status |-> "returned", col |-> col.name,
     value |-> Value("error", Dispatch(col.dtype), <<"error in ", col.name>>,
                     Bare(<<Stat("error", "primitive", "none", <<"error in ", col.name>>)>>))]

\* One call of analyze_column: the one-entry dict {col: value} it returns;
\* for an analyzed column the value is products.summary.
analyze_column(col) ==
    IF Dispatch(col.dtype) = "skip"
    THEN [status |-> "returned", col |-> col.name,
          value |-> Value("message", "skip", SkipMessage(col.dtype),
                          Bare(<<Stat("message", "primitive", "none",
                                      SkipMessage(col.dtype))>>))]
    ELSE IF col.analysis = "raises" \/ Analyze(col).status # "returned"
    THEN OnAnalyzerError(col)
    ELSE [status |-> "returned", col |-> col.name,
          value |-> Value("summary", Dispatch(col.dtype), <<"summary of ", col.name>>,
                          Analyze(col).summary)]

\* dtype = str(self.df[col].dtype), the statement before the try block:
\* self.df[col] is a Series for a label that one column carries, raises
\* KeyError for a label no column carries, and is a DataFrame, which has no
\* dtype attribute, for a label that several columns carry.
ResolveDtype(d, label) ==
    LET hits == {i \in DOMAIN d : d[i].name = label}
    IN  IF hits = {} THEN "KeyError"
        ELSE IF Cardinality(hits) = 1 THEN "ok"
        ELSE "AttributeError"

Resolved(d, i) == ResolveDtype(d, d[i].name) = "ok"

\* self.analyze_column(col) for the label of column i of the DataFrame: the
\* type resolution, then the try block.
AnalyzeColumnCall(d, i) ==
    IF Resolved(d, i)
    THEN analyze_column(d[i])
    ELSE [status |-> "raised", col |-> d[i].name,
          value |-> Value("error", "none", <<ResolveDtype(d, d[i].name)>>,
                          Bare(<<Stat("error", "primitive", "none",
                                      <<ResolveDtype(d, d[i].name)>>)>>))]

\* The analyzers analyze_column calls on a column: the one of the matching
\* case, none in the default case.
AnalyzerCalls(col) ==
    IF Dispatch(col.dtype) = "skip" THEN <<>> ELSE <<Dispatch(col.dtype)>>

\* The plot files written while analyze_column runs on a column.
PlotsOf(col) ==
    IF Dispatch(col.dtype) = "skip" \/ col.analysis = "raises" THEN {}
    ELSE Written(Analyze(col))

(***************************************************************************)
(* ExploratoryDataAnalysis.explore (eda.py 88-112) over multiprocessing's  *)
(* Pool.imap: the column list is cut into consecutive chunks of chunksize  *)
(* columns, idle workers take chunks in order, chunks complete in any      *)
(* order, and the iterator yields the items of chunk k only after those of *)
(* chunk k-1.                                                              *)
(***************************************************************************)
NumWorkers(ncpu, n) == Min(ncpu, n)

ChunkSize(n, workers) == Max(1, n \div (workers * 2))

NumChunks(n, size) == (n + size - 1) \div size

\* The column indexes of chunk k.
ChunkItems(k, n, size) == ((k - 1) * size + 1) .. Min(k * size, n)

\* The results of chunk k, in column order.
ChunkResults(k) ==
    LET lo == (k - 1) * chunksize + 1
        hi == Min(k * chunksize, Len(df))
    IN  [i \in 1..(hi - lo + 1) |-> AnalyzeColumnCall(df, lo + i - 1)]

\* Chunks whose items the iterator has already yielded.
Yielded == NumChunks(Len(results), chunksize)

\* pool.imap_unordered: any computed chunk is yielded, in completion order.
ImapNextUnordered(computed, next) == computed

\* pool.imap: the chunks the iterator can yield next, given the computed ones.
ImapNext(computed, next) == IF next \in computed THEN {next} ELSE {}

\* report = {col: result[col] for result in results for col in result}:
\* a dict keeps the position of a key's first insertion and its last value.
DictSet(d, k, v) ==
    IF \E i \in DOMAIN d : d[i].key = k
    THEN [i \in DOMAIN d |-> IF d[i].key = k THEN [key |-> k, value |-> v] ELSE d[i]]
    ELSE Append(d, [key |-> k, value |-> v])

RECURSIVE CollectReport(_, _)
CollectReport(rs, d) ==
    IF rs = <<>> THEN d
    ELSE CollectReport(Tail(rs), DictSet(d, Head(rs).col, Head(rs).value))

\* json.dumps(report, default=...): the default hook is applied to values
\* the encoder does not know, x.item() for a numpy scalar and str(x) for
\* anything else; it is not applied to the keys of a mapping, where a key
\* that is no str, int, float, bool or None raises TypeError.
EncodeStat(st) ==
    [key |-> st.key,
     json |-> CASE st.kind = "numpy" -> "number"
                [] st.kind = "object" -> "string"
                [] st.kind = "mapping" -> "object"
                [] OTHER -> "primitive",
     text |-> st.text]

KeysEncodable(value) ==
    \A i \in DOMAIN value.statistics :
        ~(value.statistics[i].kind = "mapping" /\ value.statistics[i].keys = "object")

\* A (title, statistics) tuple is written as a two-element array.
EncodeValue(value) ==
    [json |-> IF value.shape = "pair" THEN "array" ELSE "object",
     title |-> value.title,
     members |-> [i \in DOMAIN value.statistics |-> EncodeStat(value.statistics[i])]]

Dumps(rep) ==
    IF \A i \in DOMAIN rep : KeysEncodable(rep[i].value)
    THEN [raised |-> FALSE,
          text |-> [i \in DOMAIN rep |-> [key |-> rep[i].key, value |-> EncodeValue(rep[i].value)]]]
    ELSE [raised |-> TRUE, text |-> <<>>]

\* save_report with the file opened for appending.
SaveReportAppending(rep) ==
    IF Dumps(rep).raised THEN json_file
    ELSE [written |-> TRUE, content |-> json_file.content \o Dumps(rep).text]

\* save_report (eda.py 132-184): json.dumps of the report, written over
\* eda_report.json; an exception is logged and the file is left as it was.
SaveReport(rep) ==
    IF Dumps(rep).raised THEN json_file
    ELSE [written |-> TRUE, content |-> Dumps(rep).text]

ExploreStart ==
    /\ pc = "start"
    /\ num_workers' = NumWorkers(cpu, Len(df))
    /\ chunksize' = ChunkSize(Len(df), NumWorkers(cpu, Len(df)))
    /\ pc' = "pool"
    /\ UNCHANGED <<df, cpu, taken, inflight, done, results, report, json_file>>
    /\ UNCHANGED <<schemaVars, reportVars, run>>
    /\ UNCHANGED <<analyzerVars, callVars>>

\* An idle worker takes the next chunk from the task queue.
WorkerTake ==
    /\ pc = "pool"
    /\ Cardinality(inflight) < num_workers
    /\ taken < NumChunks(Len(df), chunksize)
    /\ taken' = taken + 1
    /\ inflight' = inflight \cup {taken + 1}
    /\ UNCHANGED <<df, cpu, pc, num_workers, chunksize, done, results, report, json_file>>
    /\ UNCHANGED <<schemaVars, reportVars, run>>
    /\ UNCHANGED <<analyzerVars, callVars>>

\* A worker finishes its chunk and puts the results on the result queue.
WorkerFinish ==
    /\ pc = "pool"
    /\ \E k \in inflight :
        /\ inflight' = inflight \ {k}
        /\ done' = done \cup {k}
        /\ plot_files' = plot_files \cup
                UNION {IF Resolved(df, i) THEN PlotsOf(df[i]) ELSE {} :
                            i \in ChunkItems(k, Len(df), chunksize)}
        /\ analyzer_calls' =
                [i \in DOMAIN analyzer_calls |->
                    IF i \in ChunkItems(k, Len(df), chunksize) /\ Resolved(df, i)
                    THEN analyzer_calls[i] \o AnalyzerCalls(df[i])
                    ELSE analyzer_calls[i]]
    /\ UNCHANGED <<df, cpu, pc, num_workers, chunksize, taken, results, report, json_file>>
    /\ UNCHANGED <<schemaVars, reportVars, run>>
    /\ UNCHANGED <<series, products, save_calls, load_call, prompt>>

\* list(...) pulls the next items from the imap iterator; an exception that
\* escaped analyze_column in the worker is re-raised here.
Collect ==
    /\ pc = "pool"
    /\ \E k \in ImapNext(done, Yielded + 1) :
        /\ done' = done \ {k}
        /\ IF \E i \in DOMAIN ChunkResults(k) : ChunkResults(k)[i].status = "raised"
           THEN /\ pc' = "raised"
                /\ results' = results
           ELSE /\ pc' = pc
                /\ results' = results \o ChunkResults(k)
    /\ UNCHANGED <<df, cpu, num_workers, chunksize, taken, inflight, report, json_file>>
    /\ UNCHANGED <<schemaVars, reportVars, run>>
    /\ UNCHANGED <<analyzerVars, callVars>>

\* All columns collected: build the report, save it, return it.
ExploreFinish ==
    /\ pc = "pool"
    /\ Len(results) = Len(df)
    /\ report' = CollectReport(results, <<>>)
    /\ json_file' = SaveReport(CollectReport(results, <<>>))
    /\ pc' = "done"
    /\ save_calls' = save_calls + 1
    /\ UNCHANGED <<df, cpu, num_workers, chunksize, taken, inflight, done, results>>
    /\ UNCHANGED <<schemaVars, reportVars, run>>
    /\ UNCHANGED <<series, products, plot_files, callVars>>

\* eda.save_report(report) called again on the report explore returned.
SaveReportCall ==
    /\ pc = "done"
    /\ save_calls < MaxSaves
    /\ save_calls' = save_calls + 1
    /\ json_file' = SaveReport(report)
    /\ UNCHANGED <<df, cpu, pc, num_workers, chunksize, taken, inflight, done, results,
                   report>>
    /\ UNCHANGED <<schemaVars, reportVars, run>>
    /\ UNCHANGED <<series, products, plot_files, callVars>>

(***************************************************************************)
(* SchemaHandler (cast_schema.py).  A schema is a dict column -> dtype: a  *)
(* sequence of [column, dtype] entries with distinct columns, in the       *)
(* file's order.                                                           *)
(***************************************************************************)
\* What df[column].astype(dtype) can do.  A name pandas does not know as a
\* dtype raises TypeError; a cast to the stored type or to object succeeds;
\* any other cast succeeds or raises, and not only ValueError (a None among
\* the values of a column cast to int64 raises TypeError).
CastOutcomes == {"ok", "ValueError", "TypeError"}

Astype(col, dtype) ==
    IF dtype \notin DTypes THEN {"TypeError"}
    ELSE IF dtype = col.dtype \/ dtype = "object" THEN {"ok"}
    ELSE CastOutcomes

\* `column in df.columns`
HasColumn(d, column) == \E i \in DOMAIN d : d[i].name = column

ColumnIndex(d, column) == CHOOSE i \in DOMAIN d : d[i].name = column

\* before_types[column], with before_types = df.dtypes.copy() taken on entry.
BeforeType(before, column) == before[ColumnIndex(before, column)].dtype

\* df[column] = df[column].astype(dtype)
SetDtype(d, column, dtype) ==
    [i \in DOMAIN d |-> IF d[i].name = column THEN [d[i] EXCEPT !.dtype = dtype] ELSE d[i]]

\* A report whose "Before" is read after the cast has replaced the column.
RecordConvertedAfterCast(rep, column, before, dtype) ==
    DictSet(rep, column, <<dtype, dtype>>)

\* conversion_report[column] = (before_types[column], dtype)
RecordConverted(rep, column, before, dtype) ==
    DictSet(rep, column, <<BeforeType(before, column), dtype>>)

\* A failed conversion that is logged and not recorded.
RecordFailedDropped(rep, column, before) == rep

\* conversion_report[column] = (before_types[column], "Conversion Failed")
RecordFailed(rep, column, before) ==
    DictSet(rep, column, <<BeforeType(before, column), "Conversion Failed">>)

\* The except clause of enforce_schema's loop: `except ValueError`.
Caught(outcome) == outcome = "ValueError"

\* The loop of enforce_schema from entry i on; cast[i] is what astype does
\* for entry i.  An exception the except clause does not name leaves the
\* loop and the method, with the columns converted so far already replaced.
RECURSIVE EnforceLoop(_, _, _, _, _, _)
EnforceLoop(d, before, sch, cast, i, rep) ==
    IF i > Len(sch)
    THEN [status |-> "returned", df |-> d, rows |-> rep]
    ELSE IF ~HasColumn(d, sch[i].column)
    THEN EnforceLoop(d, before, sch, cast, i + 1, rep)
    ELSE IF cast[i] = "ok"
    THEN EnforceLoop(SetDtype(d, sch[i].column, sch[i].dtype), before, sch, cast, i + 1,
                     RecordConverted(rep, sch[i].column, before, sch[i].dtype))
    ELSE IF Caught(cast[i])
    THEN EnforceLoop(d, before, sch, cast, i + 1,
                     RecordFailed(rep, sch[i].column, before))
    ELSE [status |-> "raised", df |-> d, rows |-> rep]

\* enforce_schema (cast_schema.py 114-158): the dataset as it is left and
\* what is returned; an empty schema returns the dataset and an empty dict.
enforce_schema(d, sch, cast) ==
    IF sch = <<>>
    THEN [status |-> "returned", df |-> d,
          report |-> [type |-> "dict", rows |-> <<>>]]
    ELSE LET r == EnforceLoop(d, d, sch, cast, 1, <<>>)
         IN  IF r.status = "returned"
             THEN [status |-> "returned", df |-> r.df,
                   report |-> [type |-> "DataFrame", rows |-> r.rows]]
             ELSE [status |-> "raised", df |-> r.df,
                   report |-> [type |-> "none", rows |-> <<>>]]

\* The casts astype may perform for the entries of a schema on a dataset.
Casts(d, sch) ==
    {cast \in [DOMAIN sch -> CastOutcomes] :
        \A i \in DOMAIN sch :
            IF HasColumn(d, sch[i].column)
            THEN cast[i] \in Astype(d[ColumnIndex(d, sch[i].column)], sch[i].dtype)
            ELSE cast[i] = "ok"}

\* load_schema that resets self.schema before it reads the file.
load_schema_clearing(file, held) ==
    IF file.ext = "no path"
    THEN [status |-> "returned", schema |-> <<>>]
    ELSE IF file.ext \notin {".json", ".yaml", ".yml"} \/ ~file.parses
    THEN [status |-> "ValueError", schema |-> <<>>]
    ELSE [status |-> "returned", schema |-> file.content]

\* load_schema (cast_schema.py 83-112).
load_schema(file, held) ==
    IF file.ext = "no path"
    THEN [status |-> "returned", schema |-> held]
    ELSE IF file.ext \notin {".json", ".yaml", ".yml"}
    THEN [status |-> "ValueError", schema |-> held]
    ELSE IF ~file.parses
    THEN [status |-> "ValueError", schema |-> held]
    ELSE [status |-> "returned", schema |-> file.content]

LoadSchema ==
    /\ run.pc = "idle"
    /\ schema_call \in {None, "prepared"}
    /\ enforced.status = "none"
    /\ schema_call' = load_schema(schema_file, schema).status
    /\ schema' = load_schema(schema_file, schema).schema
    /\ UNCHANGED <<df0, schema_file, enforced>>
    /\ UNCHANGED <<edaVars, reportVars, run>>
    /\ UNCHANGED <<analyzerVars, callVars>>

\* A call of enforce_schema on the dataset; df0 keeps the dataset as it was.
EnforceCall ==
    /\ \E cast \in Casts(df, schema) :
        /\ df' = enforce_schema(df, schema, cast).df
        /\ enforced' = [status |-> enforce_schema(df, schema, cast).status,
                        report |-> enforce_schema(df, schema, cast).report,
                        cast |-> cast]
    /\ df0' = df

EnforceSchema ==
    /\ run.pc = "idle"
    /\ enforced.status = "none"
    /\ EnforceCall
    /\ UNCHANGED <<schema_file, schema, schema_call>>
    /\ UNCHANGED <<cpu, pc, num_workers, chunksize, taken, inflight, done, results,
                   report, json_file>>
    /\ UNCHANGED <<reportVars, run>>
    /\ UNCHANGED <<analyzerVars, callVars>>

\* The keys of DTYPE_OPTIONS, in the order the prompt numbers them.
DTYPE_OPTIONS ==
    <<"int64", "float64", "bool", "string", "category", "datetime64[ns]",
      "timedelta64[ns]", "object">>

\* create_interactive_schema (cast_schema.py 201-224) for valid answers: a
\* number selects the option of that number, 0 stands for the empty answer,
\* which keeps the detected type.
create_interactive_schema(d, answers) ==
    [i \in DOMAIN d |->
        [column |-> d[i].name,
         dtype |-> IF answers[i] = 0 THEN d[i].dtype ELSE DTYPE_OPTIONS[answers[i]]]]

\* The entries of SAMPLE_SCHEMA (cast_schema.py 39-71) that the column
\* labels of the model can meet.
SAMPLE_SCHEMA ==
    <<[column |-> "email", dtype |-> "string"], [column |-> "zip", dtype |-> "int64"],
      [column |-> "notes", dtype |-> "string"]>>

\* load_or_create_schema (cast_schema.py 233-260): the built-in schema for
\* the path "sample", load_schema for a path that exists, the interactive
\* flow otherwise.
load_or_create_schema(file, held, d, answers) ==
    IF file.ext = "sample"
    THEN [status |-> "returned", schema |-> SAMPLE_SCHEMA]
    ELSE IF file.ext # "no path"
    THEN load_schema(file, held)
    ELSE [status |-> "returned", schema |-> create_interactive_schema(d, answers)]

\* The valid answers the model gives in the interactive flow: keep the
\* detected type, int64, string.
PromptAnswers == {0, 1, 4}

LoadOrCreateSchema ==
    /\ run.pc = "idle"
    /\ schema_call = None
    /\ enforced.status = "none"
    /\ \E answers \in [DOMAIN df -> PromptAnswers] :
        /\ schema' = load_or_create_schema(schema_file, schema, df, answers).schema
        /\ schema_call' =
                IF load_or_create_schema(schema_file, schema, df, answers).status = "returned"
                THEN "prepared"
                ELSE load_or_create_schema(schema_file, schema, df, answers).status
    /\ UNCHANGED <<df0, schema_file, enforced>>
    /\ UNCHANGED <<edaVars, reportVars, run>>
    /\ UNCHANGED <<analyzerVars, callVars>>

(***************************************************************************)
(* UnifiedReport (unified_report.py).  An AnalysisResult is the pair       *)
(* (summary, plot_paths); its summary is a (title, statistics) pair, or,   *)
(* from the analyzers that report an error without a title, a one-key      *)
(* mapping.                                                                *)
(***************************************************************************)
AnalysisResult(title, plot_paths) ==
    [type |-> "AnalysisResult", summary |-> "pair", title |-> title,
     plot_paths |-> plot_paths]

\* The files of the output directory: os.path.exists and plt.imread.
Exists(path) == path \in {"a.png", "b.png", "bad.png"}

Readable(path) == path \in {"a.png", "b.png"}

RequiredKeys == {"source", "rows", "columns", "schema", "timestamp"}

\* load_title_page_content (59-73)
load_title_page_content(content) ==
    IF RequiredKeys \subseteq content THEN "ok" ELSE "ValueError"

\* load_schema_enforcement_page_content (75-85)
load_schema_enforcement_page_content(schema_report) ==
    IF schema_report.type = "DataFrame" THEN "ok" ELSE "TypeError"

\* load_missing_values_page_content (87-98) and load_analysis_page_content
\* (100-111): the isinstance test, then `result_title, _ = summary`.
load_analysis_result(x) ==
    IF x.type # "AnalysisResult" THEN "TypeError"
    ELSE IF x.summary # "pair" THEN "ValueError"
    ELSE "ok"

Page(section, index, kind, ref) ==
    [section |-> section, index |-> index, kind |-> kind, ref |-> ref]

Logged(level, event, about) == [level |-> level, event |-> event, about |-> about]

Step(raised, pages, logged) == [raised |-> raised, pages |-> pages, log |-> logged]

\* _create_title_page (136-184): content[...] raises KeyError on a missing key.
CreateTitlePage(tp) ==
    IF RequiredKeys \subseteq tp.keys
    THEN Step(FALSE, <<Page("title", 0, "page", "")>>, <<>>)
    ELSE Step(TRUE, <<>>, <<>>)

\* _create_schema_page (186-213): results.columns raises on the dict the
\* constructor stores, and ax.table raises on a table without rows.
CreateSchemaPage(sp) ==
    IF sp.type = "DataFrame" /\ sp.rows # <<>>
    THEN Step(FALSE, <<Page("schema", 0, "page", "")>>, <<>>)
    ELSE Step(TRUE, <<>>, <<>>)

\* A page for a plot that exists and loads; an error logged for one that
\* exists and does not load.
PlotPage(section, index, path) ==
    IF Readable(path)
    THEN Step(FALSE, <<Page(section, index, "plot", path)>>, <<>>)
    ELSE Step(FALSE, <<>>, <<Logged("error", "failed to load", path)>>)

\* The loop over plot_paths in _create_missing_values_page (257-275).
RECURSIVE MissingPlotPages(_)
MissingPlotPages(paths) ==
    IF paths = <<>> THEN Step(FALSE, <<>>, <<>>)
    ELSE LET one == IF Exists(Head(paths))
                    THEN PlotPage("missing", 0, Head(paths))
                    ELSE Step(FALSE, <<>>,
                              <<Logged("warning", "figure not found", Head(paths))>>)
             rest == MissingPlotPages(Tail(paths))
         IN  Step(FALSE, one.pages \o rest.pages, one.log \o rest.log)

\* _create_missing_values_page (215-275), reading self.missing_values_pages.
CreateMissingValuesPage(mvp) ==
    IF mvp.plot_paths = <<>>
    THEN Step(FALSE, <<>>, <<Logged("warning", "no plots", mvp.title)>>)
    ELSE MissingPlotPages(mvp.plot_paths)

\* A page for every reference, whether or not its file is there.
RendersUnchecked(path) == TRUE

\* Whether the loop of _create_analysis_pages adds a page for a plot path:
\* os.path.exists, then imread and savefig inside try.
Renders(path) == Exists(path) /\ Readable(path)

\* The loop over plot_paths in _create_analysis_pages (315-326): a path that
\* does not exist is passed over, there is no else branch.
RECURSIVE AnalysisPlotPages(_, _)
AnalysisPlotPages(index, paths) ==
    IF paths = <<>> THEN Step(FALSE, <<>>, <<>>)
    ELSE LET one == IF Renders(Head(paths))
                    THEN Step(FALSE, <<Page("analysis", index, "plot", Head(paths))>>, <<>>)
                    ELSE IF Exists(Head(paths))
                    THEN Step(FALSE, <<>>, <<Logged("error", "figure not found", Head(paths))>>)
                    ELSE Step(FALSE, <<>>, <<>>)
             rest == AnalysisPlotPages(index, Tail(paths))
         IN  Step(FALSE, one.pages \o rest.pages, one.log \o rest.log)

\* One pass of the loop of _create_analysis_pages (281-326) for result index.
AnalysisSection(index, result) ==
    LET summary == Page("analysis", index, "summary", result.title)
    IN  IF result.plot_paths = <<>>
        THEN Step(FALSE, <<summary>>, <<Logged("warning", "no plots", result.title)>>)
        ELSE LET plots == AnalysisPlotPages(index, result.plot_paths)
             IN  Step(FALSE, <<summary>> \o plots.pages, plots.log)

\* The order in which _create_analysis_pages walks self.analysis_pages.
AnalysisOrder(n) == [i \in 1..n |-> i]

\* _create_analysis_pages (277-326)
RECURSIVE AnalysisSections(_, _)
AnalysisSections(order, pages) ==
    IF order = <<>> THEN Step(FALSE, <<>>, <<>>)
    ELSE LET one == AnalysisSection(Head(order), pages[Head(order)])
             rest == AnalysisSections(Tail(order), pages)
         IN  Step(FALSE, one.pages \o rest.pages, one.log \o rest.log)

CreateAnalysisPages(pages) == AnalysisSections(AnalysisOrder(Len(pages)), pages)

\* The column sections written before the schema page.
ExportStepsAnalysisFirst == <<"title", "analysis", "schema", "missing">>

\* The page-creation calls of export_to_pdf, in the order it makes them.
ExportSteps == <<"title", "schema", "missing", "analysis">>

ExportStep(name, tp, sp, mvp, ap) ==
    CASE name = "title" -> CreateTitlePage(tp)
      [] name = "schema" -> CreateSchemaPage(sp)
      [] name = "missing" -> CreateMissingValuesPage(mvp)
      [] name = "analysis" -> CreateAnalysisPages(ap)

\* export_to_pdf (117-134): the calls in order, then self.pdf_pages.close();
\* a call that raises ends export_to_pdf before the close.
RECURSIVE RunExportSteps(_, _, _, _, _, _, _)
RunExportSteps(steps, tp, sp, mvp, ap, pages, logged) ==
    IF steps = <<>>
    THEN [status |-> "returned", pages |-> pages, log |-> logged, closed |-> TRUE]
    ELSE LET r == ExportStep(Head(steps), tp, sp, mvp, ap)
         IN  IF r.raised
             THEN [status |-> "raised", pages |-> pages \o r.pages,
                   log |-> logged \o r.log, closed |-> FALSE]
             ELSE RunExportSteps(Tail(steps), tp, sp, mvp, ap,
                                 pages \o r.pages, logged \o r.log)

export_to_pdf(tp, sp, mvp, ap) == RunExportSteps(ExportSteps, tp, sp, mvp, ap, <<>>, <<>>)

\* The calls on a report object.  ReportInUse: the object takes calls until
\* export_to_pdf has been called on it.
ReportInUse == export = "none"

LoadTitlePageContent(content) ==
    /\ last_call' = load_title_page_content(content)
    /\ title_page' = IF load_title_page_content(content) = "ok"
                     THEN [keys |-> content] ELSE title_page
    /\ UNCHANGED <<schema_page, missing_values_pages, missing_values_analysis_pages,
                   analysis_pages, finalized, export, pdf_pages, pdf_closed, log>>

LoadSchemaEnforcementPageContent(schema_report) ==
    /\ last_call' = load_schema_enforcement_page_content(schema_report)
    /\ schema_page' = IF load_schema_enforcement_page_content(schema_report) = "ok"
                      THEN schema_report ELSE schema_page
    /\ UNCHANGED <<title_page, missing_values_pages, missing_values_analysis_pages,
                   analysis_pages, finalized, export, pdf_pages, pdf_closed, log>>

\* The result is stored in self.missing_values_analysis_pages.
LoadMissingValuesPageContent(x) ==
    /\ last_call' = load_analysis_result(x)
    /\ missing_values_analysis_pages' =
            IF load_analysis_result(x) = "ok" THEN x ELSE missing_values_analysis_pages
    /\ UNCHANGED <<title_page, schema_page, missing_values_pages, analysis_pages,
                   finalized, export, pdf_pages, pdf_closed, log>>

LoadAnalysisPageContent(x) ==
    /\ last_call' = load_analysis_result(x)
    /\ analysis_pages' =
            IF load_analysis_result(x) = "ok" THEN Append(analysis_pages, x)
            ELSE analysis_pages
    /\ UNCHANGED <<title_page, schema_page, missing_values_pages,
                   missing_values_analysis_pages, finalized, export, pdf_pages,
                   pdf_closed, log>>

\* finalize_section (113-115) logs and changes no attribute; `finalized`
\* records that it was called.
FinalizeSection ==
    /\ finalized' = TRUE
    /\ last_call' = "ok"
    /\ UNCHANGED <<title_page, schema_page, missing_values_pages,
                   missing_values_analysis_pages, analysis_pages, export, pdf_pages,
                   pdf_closed, log>>

ExportToPdf ==
    LET r == export_to_pdf(title_page, schema_page, missing_values_pages, analysis_pages)
    IN  /\ export' = r.status
        /\ pdf_pages' = pdf_pages \o r.pages
        /\ log' = log \o r.log
        /\ pdf_closed' = r.closed
        /\ last_call' = IF r.status = "returned" THEN "ok" ELSE "raised"
        /\ UNCHANGED <<title_page, schema_page, missing_values_pages,
                       missing_values_analysis_pages, analysis_pages, finalized>>

(***************************************************************************)
(* The states in which a component is not in use.                          *)
(***************************************************************************)
EdaIdle ==
    /\ cpu = 1
    /\ pc = "idle"
    /\ num_workers = 0
    /\ chunksize = 1
    /\ taken = 0
    /\ inflight = {}
    /\ done = {}
    /\ results = <<>>
    /\ report = <<>>
    /\ json_file = [written |-> FALSE, content |-> <<>>]

SchemaIdle ==
    /\ df0 = <<>>
    /\ schema_file = [ext |-> "no path", parses |-> FALSE, content |-> <<>>]
    /\ schema = <<>>
    /\ schema_call = None
    /\ enforced = [status |-> "none", report |-> [type |-> "none", rows |-> <<>>],
                   cast |-> <<>>]

\* UnifiedReport.__init__ (unified_report.py 34-57).
ReportConstructed ==
    /\ title_page = [keys |-> {}]
    /\ schema_page = [type |-> "dict", rows |-> <<>>]
    /\ missing_values_pages = AnalysisResult("Missing Values Summary", <<>>)
    /\ missing_values_analysis_pages = [type |-> "unset"]
    /\ analysis_pages = <<>>
    /\ finalized = FALSE
    /\ last_call = "none"
    /\ export = "none"
    /\ pdf_pages = <<>>
    /\ pdf_closed = FALSE
    /\ log = <<>>

\* No analyzer has been called.
AnalyzerIdle ==
    /\ series = [name |-> "", dtype |-> "", empty |-> TRUE, values |-> ""]
    /\ products = [call |-> "none", result |-> Raised("none")]
    /\ plot_files = {}
    /\ save_calls = 0

\* No function has been called on its own.
CallIdle ==
    /\ load_call = [sample |-> "False", csv_path |-> None, read |-> "none",
                    returned |-> FALSE, result |-> "none", message |-> "", opened |-> "none"]
    /\ prompt = [pc |-> "idle", column |-> 0, last |-> <<>>]
    /\ analyzer_calls = [i \in 0..Len(df) |-> <<>>]

RunIdle ==
    run = [pc |-> "idle", loaded |-> FALSE, caught |-> "none", level |-> "none",
           at |-> "none", exit |-> "running", source |-> [kind |-> "none", read |-> "none"]]

(***************************************************************************)
(* SpecExplore: ExploratoryDataAnalysis(df).explore() on every dataset of  *)
(* 1..MaxCols columns over ExploreKinds (a column whose analysis returns    *)
(* and one whose analysis raises), with 1..MaxCpu processors.              *)
(***************************************************************************)
ExploreKinds == {<<"int64", "ok">>, <<"string", "raises">>}

Datasets(maxcols, kinds) ==
    UNION {{[i \in 1..n |-> Column(ColNames[i], ks[i][1], ks[i][2])] :
                ks \in [1..n -> kinds]} : n \in 1..maxcols}

InitExplore ==
    /\ df \in Datasets(MaxCols, ExploreKinds)
    /\ cpu \in 1..MaxCpu
    /\ pc = "start"
    /\ num_workers = 0
    /\ chunksize = 1
    /\ taken = 0
    /\ inflight = {}
    /\ done = {}
    /\ results = <<>>
    /\ report = <<>>
    /\ json_file = [written |-> FALSE, content |-> <<>>]
    /\ SchemaIdle
    /\ ReportConstructed
    /\ AnalyzerIdle
    /\ CallIdle
    /\ RunIdle

NextExplore ==
    \/ ExploreStart
    \/ WorkerTake
    \/ WorkerFinish
    \/ Collect
    \/ ExploreFinish

SpecExplore == InitExplore /\ [][NextExplore]_vars

(***************************************************************************)
(* SpecJson: explore() on datasets of 1..MaxJsonCols columns over JsonKinds *)
(* and then further save_report calls on the returned report.  JsonKinds   *)
(* has an analyzed column, a category column of strings, a category column *)
(* whose categories are objects (Timestamps), a column of a dtype that is  *)
(* not dispatched, and a column whose analysis raises.                     *)
(***************************************************************************)
MaxJsonCols == 3

JsonKinds ==
    {<<"int64", "ok">>, <<"category", "ok">>, <<"category", "objects">>,
     <<"object", "ok">>, <<"string", "raises">>, <<"datetime64[ns]", "ok">>,
     <<"int64", "unwritable">>}

InitJson ==
    /\ df \in Datasets(MaxJsonCols, JsonKinds)
    /\ cpu \in 1..MaxCpu
    /\ pc = "start"
    /\ num_workers = 0
    /\ chunksize = 1
    /\ taken = 0
    /\ inflight = {}
    /\ done = {}
    /\ results = <<>>
    /\ report = <<>>
    /\ json_file = [written |-> FALSE, content |-> <<>>]
    /\ SchemaIdle
    /\ ReportConstructed
    /\ AnalyzerIdle
    /\ CallIdle
    /\ RunIdle

NextJson ==
    \/ ExploreStart
    \/ WorkerTake
    \/ WorkerFinish
    \/ Collect
    \/ ExploreFinish
    \/ SaveReportCall

SpecJson == InitJson /\ [][NextJson]_vars

(***************************************************************************)
(* SpecAnalyze: the analyzers called directly on a Series (the DataFrame   *)
(* for analyze_missing_data), for every series of SeriesInputs: empty or   *)
(* not, of a dtype the analyzer is meant for or of another one.            *)
(***************************************************************************)
SeriesInputs ==
    {Series(n, t, e, v) :
        n \in {"age", "notes"},
        t \in {"int64", "string", "category", "datetime64[ns]", "object"},
        e \in BOOLEAN,
        v \in {"plain", "objects"}}

InitAnalyze ==
    /\ EdaIdle
    /\ df = <<>>
    /\ SchemaIdle
    /\ ReportConstructed
    /\ series \in SeriesInputs
    /\ products = [call |-> "none", result |-> Raised("none")]
    /\ plot_files = {}
    /\ save_calls = 0
    /\ CallIdle
    /\ RunIdle

\* One analyzer call: its result, and the plot files it wrote.
AnalyzerCall(name, result) ==
    /\ products' = [call |-> name, result |-> result]
    /\ plot_files' = plot_files \cup Written(result)
    /\ UNCHANGED <<series, save_calls, callVars>>
    /\ UNCHANGED <<edaVars, schemaVars, reportVars, run>>

AnalyzeNumerical ==
    /\ run.pc = "idle"
    /\ \E saved \in [1..2 -> SaveOutcomes] :
        AnalyzerCall("numerical_summary", numerical_summary(series, saved))

AnalyzeCategorical ==
    /\ run.pc = "idle"
    /\ \E saved \in [1..2 -> SaveOutcomes] :
        AnalyzerCall("categorize", categorize(series, saved))

AnalyzeText ==
    /\ run.pc = "idle"
    /\ \E saved \in [1..2 -> SaveOutcomes] :
        AnalyzerCall("analyze_text", analyze_text(series, saved))

AnalyzeDatetime ==
    /\ run.pc = "idle"
    /\ \E saved \in [1..2 -> SaveOutcomes] :
        AnalyzerCall("analyze_datetime", analyze_datetime(series, saved))

AnalyzeMissingData ==
    /\ run.pc = "idle"
    /\ \E saved \in [1..2 -> SaveOutcomes] :
        AnalyzerCall("analyze_missing_data", analyze_missing_data(series, saved))

NextAnalyze ==
    \/ AnalyzeNumerical
    \/ AnalyzeCategorical
    \/ AnalyzeText
    \/ AnalyzeDatetime
    \/ AnalyzeMissingData

SpecAnalyze == InitAnalyze /\ [][NextAnalyze]_vars

(***************************************************************************)
(* SpecEnforce: a SchemaHandler on a schema file, then enforce_schema on   *)
(* a dataset, for every dataset of 1..MaxEnforceCols columns, every schema *)
(* of up to MaxSchema entries and every behaviour of the casts.            *)
(***************************************************************************)
MaxEnforceCols == 2
MaxSchema == 2

\* The dtypes pandas.read_csv detects, as far as the model draws them.
NativeKinds == {<<"int64", "ok">>, <<"object", "ok">>}

\* Declared types: three dtypes and a name that is no pandas dtype.
DeclaredTypes == {"int64", "datetime64[ns]", "object", "number"}

\* Schemas name the first MaxEnforceCols + 1 column labels, so a schema can
\* name a column the dataset does not have.
Schemas ==
    UNION {{s \in [1..n -> [column : {ColNames[i] : i \in 1..(MaxEnforceCols + 1)},
                            dtype : DeclaredTypes]] :
                \A i, j \in 1..n : i # j => s[i].column # s[j].column} :
           n \in 0..MaxSchema}

\* The file behind schema_path: its extension, whether it parses, and the
\* mapping it holds; "no path" stands for a handler built without a path.
NoSchemaFile == [ext |-> "no path", parses |-> FALSE, content |-> <<>>]

\* The schema path "sample" that --sample-schema stands for.
SampleSchemaPath == [ext |-> "sample", parses |-> FALSE, content |-> <<>>]

SchemaFiles ==
    {NoSchemaFile, SampleSchemaPath}
        \cup [ext : {".json", ".yaml"}, parses : {TRUE}, content : Schemas]
        \cup [ext : {".json", ".yaml", ".txt"}, parses : {FALSE}, content : {<<>>}]

InitEnforce ==
    /\ df \in Datasets(MaxEnforceCols, NativeKinds)
    /\ EdaIdle
    /\ df0 = <<>>
    /\ schema_file \in SchemaFiles
    /\ schema = <<>>
    /\ schema_call = None
    /\ enforced = [status |-> "none", report |-> [type |-> "none", rows |-> <<>>],
                   cast |-> <<>>]
    /\ ReportConstructed
    /\ AnalyzerIdle
    /\ CallIdle
    /\ RunIdle

NextEnforce ==
    \/ LoadOrCreateSchema
    \/ LoadSchema
    \/ EnforceSchema

SpecEnforce == InitEnforce /\ [][NextEnforce]_vars

(***************************************************************************)
(* SpecReport: a UnifiedReport object and every sequence of calls on it,   *)
(* with up to MaxPages accumulated analysis results.                       *)
(***************************************************************************)
MaxPages == 2

\* Lists of artifact references: none, one plot, an empty reference, a file
\* that is gone, a file that does not load, two plots.
PlotLists ==
    {<<>>, <<"a.png">>, <<"", "a.png">>, <<"gone.png", "b.png">>,
     <<"bad.png", "a.png">>, <<"a.png", "b.png">>}

\* What callers hand to the load_* methods: analysis results, a result whose
\* summary is a one-key mapping, and a value that is no AnalysisResult.
AnalysisInputs ==
    {AnalysisResult(t, ps) : t \in {"A", "B"}, ps \in PlotLists}
        \cup {[type |-> "AnalysisResult", summary |-> "mapping", title |-> "", plot_paths |-> <<>>],
              [type |-> "dict", summary |-> "mapping", title |-> "", plot_paths |-> <<>>]}

MissingInputs ==
    {AnalysisResult("Missing Values Summary", <<"a.png">>),
     [type |-> "dict", summary |-> "mapping", title |-> "", plot_paths |-> <<>>]}

TitleInputs == {RequiredKeys, RequiredKeys \ {"timestamp"}}

SchemaReportInputs ==
    {[type |-> "dict", rows |-> <<>>],
     [type |-> "DataFrame", rows |-> <<>>],
     [type |-> "DataFrame", rows |-> <<[key |-> "age", value |-> <<"object", "int64">>]>>]}

InitReport ==
    /\ df = <<>>
    /\ EdaIdle
    /\ SchemaIdle
    /\ ReportConstructed
    /\ AnalyzerIdle
    /\ CallIdle
    /\ RunIdle

ReportLoadTitle ==
    /\ run.pc = "idle" /\ ReportInUse
    /\ \E content \in TitleInputs : LoadTitlePageContent(content)
    /\ UNCHANGED <<edaVars, schemaVars, run>>
    /\ UNCHANGED <<analyzerVars, callVars>>

ReportLoadSchema ==
    /\ run.pc = "idle" /\ ReportInUse
    /\ \E rep \in SchemaReportInputs : LoadSchemaEnforcementPageContent(rep)
    /\ UNCHANGED <<edaVars, schemaVars, run>>
    /\ UNCHANGED <<analyzerVars, callVars>>

ReportLoadMissing ==
    /\ run.pc = "idle" /\ ReportInUse
    /\ \E x \in MissingInputs : LoadMissingValuesPageContent(x)
    /\ UNCHANGED <<edaVars, schemaVars, run>>
    /\ UNCHANGED <<analyzerVars, callVars>>

ReportLoadAnalysis ==
    /\ run.pc = "idle" /\ ReportInUse
    /\ Len(analysis_pages) < MaxPages
    /\ \E x \in AnalysisInputs : LoadAnalysisPageContent(x)
    /\ UNCHANGED <<edaVars, schemaVars, run>>
    /\ UNCHANGED <<analyzerVars, callVars>>

ReportFinalize ==
    /\ run.pc = "idle" /\ ReportInUse
    /\ FinalizeSection
    /\ UNCHANGED <<edaVars, schemaVars, run>>
    /\ UNCHANGED <<analyzerVars, callVars>>

ReportExport ==
    /\ run.pc = "idle" /\ ReportInUse
    /\ ExportToPdf
    /\ UNCHANGED <<edaVars, schemaVars, run>>
    /\ UNCHANGED <<analyzerVars, callVars>>

NextReport ==
    \/ ReportLoadTitle
    \/ ReportLoadSchema
    \/ ReportLoadMissing
    \/ ReportLoadAnalysis
    \/ ReportFinalize
    \/ ReportExport

SpecReport == InitReport /\ [][NextReport]_vars

(***************************************************************************)
(* SpecRun: one run of the analyze command (cli.py 100-153) that has       *)
(* passed the option checks and built its UnifiedReport: load the dataset, *)
(* load the title page, load or create the schema, enforce it, hand the    *)
(* conversion report to the UnifiedReport, build the orchestrator and      *)
(* explore, finalize, export.  An exception in any of these lands in one   *)
(* of the three except clauses, which log it and end the run.  The         *)
(* orchestrator is the ExploratoryDataAnalysis of eda.py: its explore      *)
(* writes the JSON report and does not touch the UnifiedReport.            *)
(***************************************************************************)
MaxRunCols == 2

\* Columns as read from the CSV: an integer column, an object column and an
\* object column whose analysis, when an analyzer is called on it, raises.
RunKinds == {<<"int64", "ok">>, <<"object", "ok">>, <<"object", "raises">>}

RunSchemaFiles ==
    {f \in SchemaFiles : Len(f.content) <= 1 /\ f.ext # ".yaml"}

\* The operator's answers in the interactive flow: keep, int64 or string.
RunAnswers == PromptAnswers

\* Exceptions that are ValueError or a subclass of it.
ValueErrors == {"ValueError", "EmptyDataError"}

\* The except clauses of analyze (cli.py 148-153).
Handler(exception) ==
    IF exception = "FileNotFoundError" THEN "critical"
    ELSE IF exception \in ValueErrors THEN "warning"
    ELSE "exception"

\* An except clause that logs and lets the run go on to the orchestrator.
FailAndContinue(exception) ==
    [run EXCEPT !.pc = "eda", !.caught = exception, !.level = Handler(exception),
                !.at = run.pc]

\* An exception in the try block: the matching except clause logs it and
\* analyze returns, so the command exits with status 0.
Fail(exception) ==
    [run EXCEPT !.pc = "done", !.caught = exception, !.level = Handler(exception),
                !.at = run.pc, !.exit = "0"]

\* Where the dataset comes from and what pd.read_csv does with it.  A CSV
\* path: read, read with no rows, gone since the option was checked, not
\* parseable, without any column.  The sample URL: read, read with no rows,
\* answered with an HTTP error, not reachable, not parseable.  pandas opens
\* a URL with urllib, so a fetch failure is an urllib.error exception.
Sources ==
    [kind : {"csv"},
     read : {"ok", "empty", "FileNotFoundError", "ParserError", "EmptyDataError"}]
        \cup [kind : {"sample"}, read : {"ok", "empty", "HTTPError", "URLError", "ParserError"}]

\* load_data (load_case_data.py 14-65): "ok" for a returned DataFrame, else
\* the exception that leaves the call.  The except clauses catch
\* FileNotFoundError and ParserError (and, for the sample,
\* requests.exceptions.RequestException); any other exception passes.
load_data(source) ==
    CASE source.kind = "none" -> "ValueError"
      [] source.read = "ok" -> "ok"
      [] source.read = "empty" -> "ValueError"
      [] source.read = "FileNotFoundError" -> "ValueError"
      [] source.read = "ParserError" -> "RuntimeError"
      [] OTHER -> source.read

InitRun ==
    /\ df \in Datasets(MaxRunCols, RunKinds)
    /\ cpu \in 1..MaxCpu
    /\ pc = "idle"
    /\ num_workers = 0
    /\ chunksize = 1
    /\ taken = 0
    /\ inflight = {}
    /\ done = {}
    /\ results = <<>>
    /\ report = <<>>
    /\ json_file = [written |-> FALSE, content |-> <<>>]
    /\ df0 = <<>>
    /\ schema_file \in RunSchemaFiles
    /\ schema = <<>>
    /\ schema_call = None
    /\ enforced = [status |-> "none", report |-> [type |-> "none", rows |-> <<>>],
                   cast |-> <<>>]
    /\ ReportConstructed
    /\ AnalyzerIdle
    /\ CallIdle
    /\ \E source \in Sources :
        /\ schema_file.ext = "sample" => source.kind = "sample"
        /\ run = [pc |-> "load_data", loaded |-> FALSE, caught |-> "none",
                  level |-> "none", at |-> "none", exit |-> "running", source |-> source]

\* df = load_data(sample=sample, csv_path=csv)
RunLoadData ==
    /\ run.pc = "load_data"
    /\ run' = IF load_data(run.source) = "ok"
              THEN [run EXCEPT !.pc = "title"]
              ELSE Fail(load_data(run.source))
    /\ UNCHANGED <<edaVars, schemaVars, reportVars>>
    /\ UNCHANGED <<analyzerVars, callVars>>

\* unified_report.load_title_page_content(title_page_content)
RunLoadTitle ==
    /\ run.pc = "title"
    /\ LoadTitlePageContent(RequiredKeys)
    /\ run' = [run EXCEPT !.pc = "schema"]
    /\ UNCHANGED <<edaVars, schemaVars>>
    /\ UNCHANGED <<analyzerVars, callVars>>

\* schema_handler.load_or_create_schema(df, csv_path) (cast_schema.py
\* 233-260): load_schema for a path, the interactive flow without one.
RunLoadOrCreateSchema ==
    /\ run.pc = "schema"
    /\ \E answers \in [DOMAIN df -> RunAnswers] :
        LET r == load_or_create_schema(schema_file, schema, df, answers)
        IN  /\ schema' = r.schema
            /\ schema_call' = r.status
            /\ run' = IF r.status = "returned"
                      THEN [run EXCEPT !.pc = "enforce", !.loaded = TRUE]
                      ELSE Fail(r.status)
    /\ UNCHANGED <<df0, schema_file, enforced>>
    /\ UNCHANGED <<edaVars, reportVars>>
    /\ UNCHANGED <<analyzerVars, callVars>>

\* df, schema_report = schema_handler.enforce_schema(df)
RunEnforceSchema ==
    /\ run.pc = "enforce"
    /\ EnforceCall
    /\ run' = IF enforced'.status = "returned"
              THEN [run EXCEPT !.pc = "schema_page"]
              ELSE Fail("TypeError")
    /\ UNCHANGED <<schema_file, schema, schema_call>>
    /\ UNCHANGED <<cpu, pc, num_workers, chunksize, taken, inflight, done, results,
                   report, json_file>>
    /\ UNCHANGED reportVars
    /\ UNCHANGED <<analyzerVars, callVars>>

\* unified_report.load_schema_enforcement_page_content(schema_report)
RunLoadSchemaPage ==
    /\ run.pc = "schema_page"
    /\ LoadSchemaEnforcementPageContent(enforced.report)
    /\ run' = IF load_schema_enforcement_page_content(enforced.report) = "ok"
              THEN [run EXCEPT !.pc = "eda"]
              ELSE Fail(load_schema_enforcement_page_content(enforced.report))
    /\ UNCHANGED <<edaVars, schemaVars>>
    /\ UNCHANGED <<analyzerVars, callVars>>

\* eda = ExploratoryDataAnalysis(df, ...); eda.explore() starts.
RunConstructEda ==
    /\ run.pc = "eda"
    /\ pc' = "start"
    /\ run' = [run EXCEPT !.pc = "explore"]
    /\ UNCHANGED <<df, cpu, num_workers, chunksize, taken, inflight, done, results,
                   report, json_file>>
    /\ UNCHANGED <<schemaVars, reportVars>>
    /\ UNCHANGED <<analyzerVars, callVars>>

\* eda.explore() has returned: unified_report.finalize_section()
RunFinalize ==
    /\ run.pc = "explore"
    /\ pc = "done"
    /\ FinalizeSection
    /\ run' = [run EXCEPT !.pc = "export"]
    /\ UNCHANGED <<edaVars, schemaVars>>
    /\ UNCHANGED <<analyzerVars, callVars>>

\* unified_report.export_to_pdf()
RunExport ==
    /\ run.pc = "export"
    /\ ExportToPdf
    /\ run' = IF export' = "returned" THEN [run EXCEPT !.pc = "done", !.exit = "0"]
              ELSE Fail("Exception")
    /\ UNCHANGED <<edaVars, schemaVars>>
    /\ UNCHANGED <<analyzerVars, callVars>>

NextRun ==
    \/ RunLoadData
    \/ RunLoadTitle
    \/ RunLoadOrCreateSchema
    \/ RunEnforceSchema
    \/ RunLoadSchemaPage
    \/ RunConstructEda
    \/ ExploreStart
    \/ WorkerTake
    \/ WorkerFinish
    \/ Collect
    \/ ExploreFinish
    \/ RunFinalize
    \/ RunExport

SpecRun == InitRun /\ [][NextRun]_vars

(***************************************************************************)
(* SpecNames: explore() on datasets of two or three columns whose labels   *)
(* are any distinct labels of Labels, among them labels that end in words  *)
(* the analyzers use in their file names.                                  *)
(***************************************************************************)
MaxNameCols == 3

Labels == {"visit", "visit_text_length", "visit_category", "age"}

NameKinds == {"int64", "string", "category"}

InitNames ==
    /\ \E n \in 2..MaxNameCols :
        \E names \in [1..n -> Labels], kinds \in [1..n -> NameKinds] :
            /\ \A i, j \in 1..n : i # j => names[i] # names[j]
            /\ df = [i \in 1..n |-> Column(names[i], kinds[i], "ok")]
    /\ cpu \in 1..MaxCpu
    /\ pc = "start"
    /\ num_workers = 0
    /\ chunksize = 1
    /\ taken = 0
    /\ inflight = {}
    /\ done = {}
    /\ results = <<>>
    /\ report = <<>>
    /\ json_file = [written |-> FALSE, content |-> <<>>]
    /\ SchemaIdle
    /\ ReportConstructed
    /\ AnalyzerIdle
    /\ CallIdle
    /\ RunIdle

NextNames ==
    \/ ExploreStart
    \/ WorkerTake
    \/ WorkerFinish
    \/ Collect
    \/ ExploreFinish

SpecNames == InitNames /\ [][NextNames]_vars

(***************************************************************************)
(* SpecPrompt: create_interactive_schema (cast_schema.py 160-231) step by  *)
(* step on datasets of 1..MaxPromptCols columns: the file-name prompt, one *)
(* input() per turn of the while loop of each column, then the save.  An   *)
(* answer is the sequence of characters the operator typed.                *)
(***************************************************************************)
MaxPromptCols == 2

\* The characters str.isdecimal accepts, with their values.
DecimalValue(c) ==
    CASE c = "0" -> 0 [] c = "1" -> 1 [] c = "2" -> 2 [] c = "4" -> 4
      [] c = "8" -> 8 [] c = "9" -> 9 [] OTHER -> -1

\* str.isdigit accepts the decimal characters and the digits that are not
\* decimal, such as the superscript two.
IsDigitChar(c) == DecimalValue(c) >= 0 \/ c = "²"

RECURSIVE Strip(_)
\* str.strip(): white space removed at both ends.
Strip(tok) ==
    IF tok = <<>> THEN <<>>
    ELSE IF Head(tok) = " " THEN Strip(Tail(tok))
    ELSE IF tok[Len(tok)] = " " THEN Strip(SubSeq(tok, 1, Len(tok) - 1))
    ELSE tok

\* str.isdigit(): not empty and every character a digit.
IsDigit(tok) == tok # <<>> /\ \A i \in DOMAIN tok : IsDigitChar(tok[i])

\* int(str) raises ValueError unless every character is decimal.
IntRaises(tok) == tok = <<>> \/ \E i \in DOMAIN tok : DecimalValue(tok[i]) < 0

RECURSIVE int(_)
\* int(str) of decimal characters.
int(tok) ==
    IF tok = <<>> THEN 0
    ELSE 10 * int(SubSeq(tok, 1, Len(tok) - 1)) + DecimalValue(tok[Len(tok)])

\* What the operator may type at the column prompt.
Answers ==
    {<<>>, <<" ">>, <<"1">>, <<"4">>, <<"8">>, <<" ", "4", " ">>, <<"0", "4">>,
     <<"0">>, <<"9">>, <<"1", "2">>, <<"x">>, <<"-", "1">>, <<"1", ".", "0">>,
     <<"²">>}

\* One turn of the while loop (cast_schema.py 211-224) on the answer tok for
\* column i: the type it assigns, "again" for the else branch, or the
\* exception that leaves the loop.
Choose(tok, detected) ==
    LET choice == Strip(tok)
    IN  IF IsDigit(choice)
        THEN IF IntRaises(choice) THEN "ValueError"
             ELSE IF 1 <= int(choice) /\ int(choice) <= Len(DTYPE_OPTIONS)
             THEN DTYPE_OPTIONS[int(choice)]
             ELSE "again"
        ELSE IF choice = <<>> THEN detected
        ELSE "again"

PromptKinds == {<<"object", "ok">>, <<"int64", "ok">>, <<"float64", "ok">>}

InitPrompt ==
    /\ df \in Datasets(MaxPromptCols, PromptKinds)
    /\ EdaIdle
    /\ SchemaIdle
    /\ ReportConstructed
    /\ AnalyzerIdle
    /\ load_call = [sample |-> "False", csv_path |-> None, read |-> "none",
                    returned |-> FALSE, result |-> "none", message |-> "", opened |-> "none"]
    /\ prompt = [pc |-> "filename", column |-> 0, last |-> <<>>]
    /\ analyzer_calls = [i \in 0..Len(df) |-> <<>>]
    /\ RunIdle

\* The file-name prompt, then self.schema = {} and the first column.
PromptFilename ==
    /\ prompt.pc = "filename"
    /\ schema' = <<>>
    /\ prompt' = [prompt EXCEPT !.pc = "columns", !.column = 1]
    /\ UNCHANGED <<df0, schema_file, schema_call, enforced>>
    /\ UNCHANGED <<edaVars, reportVars, analyzerVars, load_call, analyzer_calls, run>>

\* choice = input(...).strip() and the if statement on it.
PromptColumn ==
    /\ prompt.pc = "columns"
    /\ prompt.column <= Len(df)
    /\ \E tok \in Answers :
        LET chosen == Choose(tok, df[prompt.column].dtype)
        IN  /\ schema' = IF chosen \in {"again", "ValueError"} THEN schema
                         ELSE Append(schema, [column |-> df[prompt.column].name,
                                              dtype |-> chosen])
            /\ prompt' =
                    CASE chosen = "again" -> [prompt EXCEPT !.last = tok]
                      [] chosen = "ValueError" -> [prompt EXCEPT !.pc = "ValueError", !.last = tok]
                      [] OTHER -> [prompt EXCEPT !.last = tok,
                                                 !.column = prompt.column + 1,
                                                 !.pc = IF prompt.column = Len(df)
                                                        THEN "save" ELSE "columns"]
    /\ UNCHANGED <<df0, schema_file, schema_call, enforced>>
    /\ UNCHANGED <<edaVars, reportVars, analyzerVars, load_call, analyzer_calls, run>>

\* with open(schema_filename, "w"): json.dump(self.schema, f); the open
\* raises for a file name in a directory that does not exist.
PromptSave ==
    /\ prompt.pc = "save"
    /\ \E opened \in BOOLEAN :
        prompt' = [prompt EXCEPT !.pc = IF opened THEN "returned" ELSE "OSError"]
    /\ UNCHANGED <<schemaVars, edaVars, reportVars, analyzerVars, load_call,
                   analyzer_calls, run>>

NextPrompt ==
    \/ PromptFilename
    \/ PromptColumn
    \/ PromptSave

SpecPrompt == InitPrompt /\ [][NextPrompt]_vars

(***************************************************************************)
(* SpecLabels: explore() on DataFrames of 1..MaxLabelCols columns whose    *)
(* labels need not differ (a DataFrame built in memory, handed to          *)
(* ExploratoryDataAnalysis as in the module's usage example), with columns *)
(* whose analyzer returns, raises, or cannot write its plots.              *)
(***************************************************************************)
MaxLabelCols == 2

LabelKinds == {<<"int64", "ok">>, <<"string", "raises">>, <<"int64", "unwritable">>,
              <<"object", "ok">>}

InitLabels ==
    /\ \E n \in 1..MaxLabelCols :
        \E names \in [1..n -> {"age", "bmi"}], kinds \in [1..n -> LabelKinds] :
            df = [i \in 1..n |-> Column(names[i], kinds[i][1], kinds[i][2])]
    /\ cpu \in 1..MaxCpu
    /\ pc = "start"
    /\ num_workers = 0
    /\ chunksize = 1
    /\ taken = 0
    /\ inflight = {}
    /\ done = {}
    /\ results = <<>>
    /\ report = <<>>
    /\ json_file = [written |-> FALSE, content |-> <<>>]
    /\ SchemaIdle
    /\ ReportConstructed
    /\ AnalyzerIdle
    /\ CallIdle
    /\ RunIdle

NextLabels ==
    \/ ExploreStart
    \/ WorkerTake
    \/ WorkerFinish
    \/ Collect
    \/ ExploreFinish

SpecLabels == InitLabels /\ [][NextLabels]_vars

(***************************************************************************)
(* SpecLoad: load_data called on its own, with every pair of arguments of  *)
(* LoadArguments and every outcome of the read that the arguments select.  *)
(***************************************************************************)
\* Python truth of an argument: None, False and "" are false.
Truthy(x) == x \notin {None, "False", ""}

\* The branch of load_data the arguments select: csv_path is tested first,
\* then sample (load_case_data.py 29, 44, 63).
SourceKind(sample, csv_path) ==
    IF Truthy(csv_path) THEN "csv"
    ELSE IF Truthy(sample) THEN "sample"
    ELSE "none"

\* The text of the exception load_data itself raises; "" for an exception
\* of pandas or urllib that passes through it.
load_data_message(source) ==
    CASE source.kind = "none" -> "No data source specified"
      [] source.kind = "csv" /\ source.read = "empty" -> "Provided dataset is empty"
      [] source.kind = "csv" /\ source.read = "FileNotFoundError" -> "File does not exist"
      [] source.kind = "csv" /\ source.read = "ParserError" -> "Failed to parse"
      [] source.kind = "sample" /\ source.read = "empty" -> "Sample dataset is empty"
      [] source.kind = "sample" /\ source.read = "ParserError" -> "Failed to parse sample dataset"
      [] OTHER -> ""

\* What pd.read_csv was called on before load_data returned or raised.
Opened(source) ==
    CASE source.kind = "csv" -> "file"
      [] source.kind = "sample" -> "url"
      [] OTHER -> "none"

\* The arguments of the calls: sample as a flag or as a case number, csv_path
\* absent, empty, a path, or a dataset name.
LoadArguments ==
    [sample : {"True", "False", "01", "99"},
     csv_path : {None, "", "data.csv", "records", "invalid_dataset"}]

InitLoad ==
    /\ EdaIdle
    /\ df = <<>>
    /\ SchemaIdle
    /\ ReportConstructed
    /\ AnalyzerIdle
    /\ RunIdle
    /\ \E a \in LoadArguments, source \in Sources \cup {[kind |-> "none", read |-> "none"]} :
        /\ source.kind = SourceKind(a.sample, a.csv_path)
        /\ load_call = [sample |-> a.sample, csv_path |-> a.csv_path,
                        read |-> source.read, returned |-> FALSE,
                        result |-> "none", message |-> "", opened |-> "none"]
    /\ prompt = [pc |-> "idle", column |-> 0, last |-> <<>>]
    /\ analyzer_calls = [i \in 0..Len(df) |-> <<>>]

\* load_data(sample, csv_path)
LoadDataCall ==
    /\ ~load_call.returned
    /\ LET source == [kind |-> SourceKind(load_call.sample, load_call.csv_path),
                      read |-> load_call.read]
       IN  load_call' = [load_call EXCEPT !.returned = TRUE,
                                          !.result = load_data(source),
                                          !.message = load_data_message(source),
                                          !.opened = Opened(source)]
    /\ UNCHANGED <<edaVars, schemaVars, reportVars, analyzerVars, prompt, analyzer_calls, run>>

NextLoad == LoadDataCall

SpecLoad == InitLoad /\ [][NextLoad]_vars

(***************************************************************************)
(* Properties of the dispatcher (SpecExplore).                             *)
(***************************************************************************)
\* What a sequential pass over the columns returns for column i.
Sequential(i) == analyze_column(df[i])

\* C1: the results explore collects and the report it returns hold one
\* entry per column, in the order of the dataset's columns, and equal to a
\* sequential pass over the columns, whatever the number of workers, the
\* chunk size and the order in which the workers complete.
C1_ResultsInColumnOrder ==
    /\ Len(results) <= Len(df)
    /\ \A i \in DOMAIN results : results[i] = Sequential(i)
    /\ pc = "done" =>
        /\ Len(results) = Len(df)
        /\ Len(report) = Len(df)
        /\ \A i \in DOMAIN df :
            /\ report[i].key = df[i].name
            /\ report[i].value = Sequential(i).value

\* Several workers, chunks of several columns, a later chunk computed before
\* the chunk the iterator waits for, and results already collected.
C1_Witness ==
    /\ pc = "pool"
    /\ num_workers > 1
    /\ chunksize > 1
    /\ Len(results) > 0
    /\ done # {}
    /\ (Yielded + 1) \notin done

Raises(col) == Dispatch(col.dtype) # "skip" /\ col.analysis = "raises"

\* C2: a column whose analyzer raises ends as {col: {"error": message}};
\* explore itself does not raise and returns an entry for every column.
C2_AnalyzerErrorIsolated ==
    /\ pc # "raised"
    /\ \A i \in DOMAIN results :
        Raises(df[i]) =>
            /\ results[i].status = "returned"
            /\ results[i].value.kind = "error"
            /\ results[i].value.text = <<"error in ", df[i].name>>
    /\ pc = "done" =>
        \A i \in DOMAIN df :
            \E j \in DOMAIN report :
                /\ report[j].key = df[i].name
                /\ Raises(df[i]) => report[j].value.kind = "error"
                /\ ~Raises(df[i]) => report[j].value.kind # "error"

\* explore returned for a dataset in which a column raised before and after
\* columns that were analyzed.
C2_Witness ==
    /\ pc = "done"
    /\ \E i, j, k \in DOMAIN df :
        /\ i < j /\ j < k
        /\ ~Raises(df[i]) /\ Raises(df[j]) /\ ~Raises(df[k])
        /\ report[i].value.kind = "summary"
        /\ report[j].value.kind = "error"
        /\ report[k].value.kind = "summary"

(***************************************************************************)
(* Properties of schema enforcement (SpecEnforce).                         *)
(***************************************************************************)
Returned == enforced.status = "returned"

Rows == enforced.report.rows

\* The schema entries whose column the dataset has, in schema order.
Present(sch, d) == SelectSeq(sch, LAMBDA e : HasColumn(d, e.column))

C4_AfterIsDeclaredOrFailed ==
    Returned =>
        \A i \in DOMAIN schema :
            HasColumn(df0, schema[i].column) =>
                \E j \in DOMAIN Rows :
                    /\ Rows[j].key = schema[i].column
                    /\ Rows[j].value[1] = BeforeType(df0, schema[i].column)
                    /\ \/ /\ Rows[j].value[2] = schema[i].dtype
                          /\ BeforeType(df, schema[i].column) = schema[i].dtype
                       \/ Rows[j].value[2] = "Conversion Failed"

\* One column converted to a type it did not have, another failed.
C4_Witness ==
    /\ Returned
    /\ \E j, k \in DOMAIN Rows :
        /\ Rows[j].value[2] = "Conversion Failed"
        /\ Rows[k].value[2] # "Conversion Failed"
        /\ Rows[k].value[2] # Rows[k].value[1]

\* C5 as stated: whatever a cast raises, enforce does not raise, the failing
\* column keeps its type, its row is (before, "Conversion Failed"), and the
\* remaining schema columns are processed.
C5_EveryCastFailureContained ==
    enforced.status # "none" =>
        /\ Returned
        /\ \A i \in DOMAIN schema :
            HasColumn(df0, schema[i].column) =>
                \E j \in DOMAIN Rows :
                    /\ Rows[j].key = schema[i].column
                    /\ enforced.cast[i] # "ok" =>
                        /\ Rows[j].value = <<BeforeType(df0, schema[i].column), "Conversion Failed">>
                        /\ BeforeType(df, schema[i].column) = BeforeType(df0, schema[i].column)

(***************************************************************************)
(* Properties of the report accumulator (SpecReport).                      *)
(***************************************************************************)
Accumulated ==
    <<title_page, schema_page, missing_values_analysis_pages, analysis_pages>>

\* C7 as stated: once finalize_section has been called no call changes the
\* accumulated state, and before it has been called export_to_pdf writes no
\* page and does not close the document.
C7_FinalizeClosesAccumulation ==
    [][/\ finalized => Accumulated' = Accumulated
       /\ ~finalized => (pdf_pages' = pdf_pages /\ pdf_closed' = pdf_closed)]_vars

\* The place of a page's section in the document.
SectionRank(page) ==
    CASE page.section = "title" -> 1
      [] page.section = "schema" -> 2
      [] page.section = "missing" -> 3
      [] page.section = "analysis" -> 3 + page.index

SectionPages(k) ==
    SelectSeq(pdf_pages, LAMBDA p : p.section = "analysis" /\ p.index = k)

\* A summary page, then a plot page per reference that satisfies keep.
ExpectedSection(k, keep(_)) ==
    LET refs == SelectSeq(analysis_pages[k].plot_paths, keep)
    IN  <<Page("analysis", k, "summary", analysis_pages[k].title)>>
            \o [i \in DOMAIN refs |-> Page("analysis", k, "plot", refs[i])]

MissingRefs ==
    {path \in UNION {Range(analysis_pages[k].plot_paths) : k \in DOMAIN analysis_pages} :
        ~Exists(path)}

\* C10 as stated: a reference whose file is missing is logged and skipped,
\* export does not raise because of it, and the pages of the remaining
\* artifacts and of the following column sections are written.
C10_MissingArtifactLoggedAndSkipped ==
    /\ export = "raised" =>
        \/ ~(RequiredKeys \subseteq title_page.keys)
        \/ schema_page.type # "DataFrame"
        \/ schema_page.rows = <<>>
    /\ export = "returned" =>
        /\ \A path \in MissingRefs :
            /\ \A i \in DOMAIN pdf_pages :
                pdf_pages[i].kind = "plot" => pdf_pages[i].ref # path
            /\ \E i \in DOMAIN log : log[i].about = path
        /\ \A k \in DOMAIN analysis_pages :
            SectionPages(k) =
                ExpectedSection(k, LAMBDA path : Exists(path) /\ Readable(path))

(***************************************************************************)
(* Properties of a run of analyze (SpecRun).                               *)
(***************************************************************************)
\* C6 as stated: a run that got past dataset loading and schema loading
\* ends with both the JSON report and the document produced.
C6_RunProducesBothArtifacts ==
    (run.pc = "done" /\ run.loaded) =>
        /\ json_file.written
        /\ export = "returned"
        /\ pdf_closed

(***************************************************************************)
(* Properties of the JSON report (SpecJson).                               *)
(***************************************************************************)
\* C11: a save_report call on a report that has been saved before, with
\* nothing accumulated in between, leaves eda_report.json with the content
\* it had and leaves the report unchanged.
C11_SaveReportIdempotent ==
    [][(save_calls >= 1 /\ save_calls' = save_calls + 1) =>
            (json_file' = json_file /\ report' = report)]_vars

\* save_report has been called again on a report that was written.
C11_Witness ==
    /\ save_calls >= 2
    /\ json_file.written
    /\ Len(json_file.content) = Len(report)
    /\ Len(report) >= 2

\* C12 as stated: the JSON file is produced for every report, with numpy
\* scalars written as numbers and every other non-primitive value or key
\* written as a string.
C12_JsonWrittenForEveryReport ==
    pc = "done" =>
        /\ json_file.written
        /\ Len(json_file.content) = Len(report)
        /\ \A i \in DOMAIN json_file.content :
            \A j \in DOMAIN report[i].value.statistics :
                /\ report[i].value.statistics[j].kind = "numpy" =>
                        json_file.content[i].value.members[j].json = "number"
                /\ report[i].value.statistics[j].kind = "object" =>
                        json_file.content[i].value.members[j].json = "string"

Unmatched(dtype) ==
    /\ dtype \notin {"int64", "float64", "category"}
    /\ dtype \notin StringLike

\* The plot files whose name starts with a column's name.
PlotFilesOf(name) ==
    {f \in plot_files :
        /\ Len(f) >= Len(Words(name))
        /\ SubSeq(f, 1, Len(Words(name))) = Words(name)}

\* C14 as stated: a column of a type that is not dispatched yields exactly
\* {"message": "Skipped analysis for <type>"}, no "error" key, no artifact,
\* and no analyzer call.
C14_SkipMessageIsType ==
    \A i \in DOMAIN results :
        Unmatched(df[i].dtype) =>
            /\ results[i].value.statistics =
                    <<Stat("message", "primitive", "none",
                           <<"Skipped analysis for ", df[i].dtype>>)>>
            /\ results[i].value.kind # "error"
            /\ results[i].value.analyzer = "skip"
            /\ PlotFilesOf(df[i].name) = {}

\* C14 amended: the message is "Skipped analysis for <type> columns"; the
\* value is that one-key mapping, has no "error" key, no analyzer is called
\* and no artifact is written for the column.
C14_SkipMessageIsTypeColumns ==
    \A i \in DOMAIN results :
        Unmatched(df[i].dtype) =>
            /\ results[i].status = "returned"
            /\ results[i].value.shape = "mapping"
            /\ results[i].value.statistics =
                    <<Stat("message", "primitive", "none",
                           <<"Skipped analysis for ", df[i].dtype, " columns">>)>>
            /\ results[i].value.kind = "message"
            /\ results[i].value.analyzer = "skip"
            /\ PlotFilesOf(df[i].name) = {}

\* explore returned for a dataset with a column that is not dispatched next
\* to an analyzed column that wrote its plots.
C14_Witness ==
    /\ pc = "done"
    /\ \E i, j \in DOMAIN df :
        /\ Unmatched(df[i].dtype)
        /\ report[i].value.kind = "message"
        /\ report[j].value.kind = "summary"
        /\ PlotFilesOf(df[j].name) # {}

(***************************************************************************)
(* Properties of the analyzers (SpecAnalyze).                              *)
(***************************************************************************)
ColumnAnalyzers == {"numerical_summary", "categorize", "analyze_text", "analyze_datetime"}

C16_SummaryIsTitledPair ==
    (products.call # "none" /\ products.result.status = "returned") =>
        /\ products.result.summary.shape = "pair"
        /\ products.result.summary.title # <<>>

(***************************************************************************)
(* Properties of schema loading (SpecEnforce).                             *)
(***************************************************************************)
\* A load_schema call on schema_path fails: the path has no .json, .yaml or
\* .yml extension, or the file does not parse.
LoadFails(file) ==
    /\ file.ext # "no path"
    /\ file.ext \notin {".json", ".yaml", ".yml"} \/ ~file.parses

\* C17: every load_schema call on an explicit path with an unknown
\* extension or a file that does not parse raises the schema-format error
\* (ValueError), and then the schema the handler held is unchanged; no other
\* load raises it.
C17_LoadFailureKeepsSchema ==
    [][(schema_call' # schema_call /\ schema_call' \in {"returned", "ValueError"}) =>
            /\ LoadFails(schema_file) => (schema_call' = "ValueError" /\ schema' = schema)
            /\ schema_call' = "ValueError" => LoadFails(schema_file)]_vars

\* load_schema has failed on a handler that held a schema.
C17_Witness ==
    /\ schema_call = "ValueError"
    /\ schema # <<>>

(***************************************************************************)
(* Properties of a run of analyze: failures (SpecRun).                     *)
(***************************************************************************)
\* C18: in a run in which schema loading or schema enforcement raised, no
\* column analysis was started, no plot and no JSON report was written and
\* nothing was exported.
C18_SchemaFailureAbortsBeforeDispatch ==
    run.at \in {"schema", "enforce"} =>
        /\ run.pc = "done"
        /\ pc = "idle"
        /\ taken = 0
        /\ results = <<>>
        /\ plot_files = {}
        /\ ~json_file.written
        /\ export = "none"
        /\ pdf_pages = <<>>

\* A run that ended in schema enforcement, after the schema was loaded.
C18_Witness ==
    /\ run.at = "enforce"
    /\ run.loaded
    /\ run.caught = "TypeError"
    /\ Len(df) >= 2

\* The dataset file is missing or empty, or the schema file is malformed or
\* of an unsupported format.
FatalError ==
    \/ /\ run.at = "load_data"
       /\ run.source.read \in {"FileNotFoundError", "empty", "EmptyDataError"}
    \/ /\ run.at = "schema"
       /\ schema_file.ext \notin {".json", ".yaml", ".yml"} \/ ~schema_file.parses

\* C19 as stated: a run that ends in a fatal dataset or schema error has
\* logged at critical level and exits with a non-zero status.
C19_FatalErrorExitsNonZero ==
    (run.pc = "done" /\ FatalError) =>
        /\ run.level = "critical"
        /\ run.exit # "0"

\* C20 as stated: when fetching the sample dataset fails, for an HTTP error
\* as for a connection failure, load_data raises RuntimeError and nothing
\* else.
C20_FetchFailureIsRuntimeError ==
    (run.at = "load_data" /\ run.source.kind = "sample"
        /\ run.source.read \in {"HTTPError", "URLError"}) =>
            run.caught = "RuntimeError"

(***************************************************************************)
(* Properties of load_data (SpecLoad).                                     *)
(***************************************************************************)
\* The dataset names the tests of load_data treat as known.
KnownDatasets == {"records"}

\* C21 as stated: a call that names a dataset that is not a known one raises
\* ValueError saying "Invalid dataset name", and has opened neither a file
\* nor a URL.
C21_UnknownDatasetIsRejected ==
    (load_call.returned /\ Truthy(load_call.csv_path)
        /\ load_call.csv_path \notin KnownDatasets) =>
            /\ load_call.result = "ValueError"
            /\ load_call.message = "Invalid dataset name"
            /\ load_call.opened = "none"

(***************************************************************************)
(* Properties of the dispatcher: routing (SpecJson).                       *)
(***************************************************************************)
\* The analyzers of the registry a stored type is to be routed to: numeric,
\* categorical, text and datetime, any other type to none.
Routed(dtype) ==
    CASE dtype \in {"int64", "float64"} -> <<"summarize">>
      [] dtype = "category" -> <<"categorize">>
      [] dtype \in StringLike -> <<"analyze_text">>
      [] dtype = "datetime64[ns]" -> <<"analyze_datetime">>
      [] OTHER -> <<>>

\* C22 as stated: when explore is done, the analyzers called on each column
\* are exactly the one its stored type is routed to, the datetime analyzer
\* for a datetime column, and none for a type outside the registry.
C22_RoutedByStoredType ==
    pc = "done" =>
        \A i \in DOMAIN df : analyzer_calls[i] = Routed(df[i].dtype)

(***************************************************************************)
(* Properties of a run of analyze: the missing-data pass (SpecRun).        *)
(***************************************************************************)
\* C23 as stated: once explore has started its workers, the missing-data
\* analysis has been called on the whole dataset exactly once and its result
\* has been loaded into the report as the missing-data content.
C23_MissingDataPassBeforeFanOut ==
    (run.pc \in {"explore", "export", "done"} /\ pc \in {"pool", "done"}) =>
        /\ analyzer_calls[0] = <<"analyze_missing_data">>
        /\ missing_values_analysis_pages.type # "unset"

(***************************************************************************)
(* Properties of the artifact names (SpecNames).                           *)
(***************************************************************************)
\* A worker has run analyze_column on column i.
Analyzed(i) == \E k \in done : i \in ChunkItems(k, Len(df), chunksize)

\* C24 as stated: the files written for two distinct columns of a dataset
\* are distinct files.
C24_ArtifactNamesDistinct ==
    \A i, j \in DOMAIN df :
        (i # j /\ Analyzed(i) /\ Analyzed(j)) =>
            PlotsOf(df[i]) \cap PlotsOf(df[j]) = {}

(***************************************************************************)
(* Properties of plot persistence (SpecJson).                              *)
(***************************************************************************)
\* C25 as stated: for an analyzed column whose plot could not be written,
\* analyze_column still returns the column's statistics, not an error
\* result, with no file written for the failed plot.
C25_PlotFailureKeepsStatistics ==
    \A i \in DOMAIN results :
        (df[i].analysis = "unwritable" /\ Dispatch(df[i].dtype) # "skip") =>
            /\ results[i].status = "returned"
            /\ results[i].value.kind = "summary"
            /\ FileName(df[i].name, "_distribution.png") \notin plot_files

(***************************************************************************)
(* Properties of the interactive schema flow (SpecPrompt).                 *)
(***************************************************************************)
\* The answer is a number in 1..N written in decimal digits, white space
\* around it aside.
SelectsOption(tok) ==
    /\ Strip(tok) # <<>>
    /\ \A i \in DOMAIN Strip(tok) : DecimalValue(Strip(tok)[i]) >= 0
    /\ int(Strip(tok)) \in 1..Len(DTYPE_OPTIONS)

\* C26 as stated: every answer at a column prompt either is a number in
\* 1..N and assigns the type of that number to the column, or is empty and
\* assigns the detected type, or assigns nothing and leaves the flow at the
\* same column's prompt; once the flow is past the columns, the schema holds
\* exactly one type for every column of the dataset, in column order.
C26_EveryColumnGetsOneType ==
    /\ prompt.pc \in {"save", "returned", "OSError"} =>
            /\ Len(schema) = Len(df)
            /\ \A i \in DOMAIN df : schema[i].column = df[i].name
    /\ prompt.pc = "columns" => Len(schema) = prompt.column - 1
    /\ (prompt.column > 1 /\ (SelectsOption(prompt.last) \/ Strip(prompt.last) = <<>>)) =>
            schema[prompt.column - 1].dtype =
                IF SelectsOption(prompt.last)
                THEN DTYPE_OPTIONS[int(Strip(prompt.last))]
                ELSE df[prompt.column - 1].dtype
    /\ (prompt.pc \notin {"idle", "filename"} /\ prompt.column > 0
            /\ prompt.last # <<>> /\ ~SelectsOption(prompt.last)
            /\ Strip(prompt.last) # <<>>) =>
                prompt.pc = "columns"

(***************************************************************************)
(* Properties of the report: the missing-data section (SpecReport).        *)
(***************************************************************************)
\* The pages of the missing-data section of the document.
MissingSection == SelectSeq(pdf_pages, LAMBDA p : p.section = "missing")

\* C27 as stated: after a successful load_missing_values_page_content, the
\* missing-data section that export_to_pdf renders is the one of the loaded
\* result: a page for each of its artifacts that is there.
C27_ExportRendersLoadedMissingResult ==
    (export = "returned" /\ missing_values_analysis_pages.type = "AnalysisResult") =>
        MissingSection = CreateMissingValuesPage(missing_values_analysis_pages).pages

(***************************************************************************)
(* Properties of a run of analyze: the schema hand-off (SpecRun).          *)
(***************************************************************************)
\* C28 as stated: whatever enforce_schema returned as its mutation record,
\* load_schema_enforcement_page_content accepts it; no run ends in the
\* hand-off.
C28_MutationRecordAccepted ==
    /\ run.at # "schema_page"
    /\ (enforced.status = "returned" /\ run.pc \notin {"load_data", "title", "schema", "enforce"}) =>
            load_schema_enforcement_page_content(enforced.report) = "ok"

(***************************************************************************)
(* Properties of analyze_column: containment (SpecLabels).                 *)
(***************************************************************************)
\* C29 as stated: no analyze_column call raises, so explore never ends in
\* an exception; each call yields one entry under the label of its column,
\* and it is {"error": message} when the type resolution, the analyzer or
\* the saving of a plot failed.
C29_AnalyzeColumnNeverRaises ==
    /\ pc # "raised"
    /\ \A i \in DOMAIN results :
        /\ results[i].status = "returned"
        /\ results[i].col = df[i].name
        /\ (~Resolved(df, i) \/ (Dispatch(df[i].dtype) # "skip"
                                    /\ df[i].analysis \in {"raises", "unwritable"})) =>
                results[i].value.kind = "error"

(***************************************************************************)
(* Properties of the report: the document handle (SpecReport).             *)
(***************************************************************************)
\* C30 as stated: once export_to_pdf has returned or raised, the PdfPages
\* handle is closed; before the call it is open.
C30_HandleClosedOnEveryPath ==
    /\ export # "none" => pdf_closed
    /\ export = "none" => ~pdf_closed /\ pdf_pages = <<>>

====
